---- MODULE Spec2Model ----
(***************************************************************************)
(* The tracking gateway of bookcars: the two admin tracking endpoints      *)
(* (backend/src/controllers/trackingController.ts) over the Traccar client *)
(* (backend/src/services/traccarApi.ts).                                   *)
(*                                                                         *)
(* Node runs one handler segment at a time: everything a handler does      *)
(* between two awaits is one atomic action here, and the awaited registry  *)
(* and provider calls are the points where other handlers interleave.      *)
(***************************************************************************)
EXTENDS Integers, Sequences, FiniteSets, TLC

VARIABLES
  env,                \* env.config: the TRACCAR_* settings, read once at startup
  carsDb,             \* the Car collection, in its natural order
  now,                \* Date.now(), in milliseconds
  ticks,              \* how many times the clock has advanced
  lastRequestByAdmin, \* the rate-limit ledger: key -> time of the last accepted request
  reqs,               \* the requests in flight, one per slot
  nRequests,          \* requests received so far
  accepted,           \* history: <<adminId, scope, time>> of every request the limiter let in
  page                \* an admin tracking page open in a browser

vars == <<env, carsDb, now, ticks, lastRequestByAdmin, reqs, nRequests, accepted, page>>

----------------------------------------------------------------------------
(* Bounds of the model *)

\* Spec: requests received, clock steps
MaxRequests == 2
MaxTicks == 1
\* SpecLimiter: requests received, clock steps
MaxPolls == 2
MaxPollTicks == 2
\* SpecWindow: the polls of one caller and the clock's steps between them
MaxWindowPolls == 3
MaxWindowTicks == 2
\* SpecPage: requests a page issues
MaxPageRequests == 3

----------------------------------------------------------------------------
(* JavaScript values.  A missing number is UndefinedNum or NullNum, a      *)
(* missing string Undefined or Null, a missing object NullObj.             *)

UndefinedNum == -1
NullNum == -2
Undefined == "undefined"
Null == "null"
NullObj == [null |-> TRUE]

\* !n for a number | null | undefined
NumFalsy(n) == n \in {UndefinedNum, NullNum, 0}
\* !s for a string | null | undefined
StrFalsy(s) == s \in {Undefined, Null, ""}
\* n ?? null
NumOrNull(n) == IF n \in {UndefinedNum, NullNum} THEN NullNum ELSE n
\* s ?? null
StrOrNull(s) == IF s \in {Undefined, Null} THEN Null ELSE s

----------------------------------------------------------------------------
(* Configuration *)

TRACCAR_NOT_CONFIGURED == "TRACCAR_NOT_CONFIGURED"
UPSTREAM_FAILURE == "UPSTREAM_FAILURE"
NoError == "none"

DefaultPollInterval == 5

pollIntervalSeconds ==
  IF env.TRACCAR_MIN_POLL_INTERVAL = 0 THEN DefaultPollInterval
  ELSE env.TRACCAR_MIN_POLL_INTERVAL

pollIntervalMs == pollIntervalSeconds * 1000

\* getClient throws TRACCAR_NOT_CONFIGURED unless all three settings are present
getClient ==
  IF StrFalsy(env.TRACCAR_BASE_URL) \/ StrFalsy(env.TRACCAR_USER) \/ StrFalsy(env.TRACCAR_PASS)
  THEN TRACCAR_NOT_CONFIGURED
  ELSE NoError

ConfiguredEnv(interval) ==
  [TRACCAR_BASE_URL |-> "http://traccar:8082", TRACCAR_USER |-> "admin",
   TRACCAR_PASS |-> "admin", TRACCAR_MIN_POLL_INTERVAL |-> interval]

\* the deployments considered: fully configured, or one of the three settings missing
EnvChoices(intervals) ==
  UNION {{ConfiguredEnv(i),
          [ConfiguredEnv(i) EXCEPT !.TRACCAR_BASE_URL = ""],
          [ConfiguredEnv(i) EXCEPT !.TRACCAR_USER = ""],
          [ConfiguredEnv(i) EXCEPT !.TRACCAR_PASS = ""]} : i \in intervals}

----------------------------------------------------------------------------
(* The vehicle registry (the Car collection) *)

Catalog ==
  << [_id |-> "c1", name |-> "Demo Sedan", licensePlate |-> "DEMO-001",
      traccarDeviceId |-> 1001, traccarUniqueId |-> "demo-imei-1001"],
     [_id |-> "c2", name |-> "Unique Only", licensePlate |-> "DEMO-003",
      traccarDeviceId |-> NullNum, traccarUniqueId |-> "demo-imei-1003"],
     [_id |-> "c3", name |-> "Demo SUV", licensePlate |-> "DEMO-002",
      traccarDeviceId |-> 1002, traccarUniqueId |-> "demo-imei-1002"],
     [_id |-> "c4", name |-> "Unmapped", licensePlate |-> Undefined,
      traccarDeviceId |-> UndefinedNum, traccarUniqueId |-> Undefined],
     [_id |-> "c5", name |-> "Device Zero", licensePlate |-> "DEMO-005",
      traccarDeviceId |-> 0, traccarUniqueId |-> Null] >>

\* the registries considered: the first n cars of the catalog
Registries == {SubSeq(Catalog, 1, n) : n \in 0..Len(Catalog)}

\* well-formed identifiers: a car of the catalog that the registry does not
\* hold is a well-formed identifier that names no car
ObjectIds == {Catalog[i]._id : i \in 1..Len(Catalog)}
MalformedId == "not-an-id"
CarIds == ObjectIds \cup {MalformedId}

isValidObjectId(id) == id \in ObjectIds

\* Car.findById(id).lean(): the car, or null
FindById(id) ==
  IF \E i \in 1..Len(carsDb) : carsDb[i]._id = id
  THEN carsDb[CHOOSE i \in 1..Len(carsDb) : carsDb[i]._id = id]
  ELSE NullObj

\* Car.find({ traccarDeviceId: { $exists: true, $ne: null } }).lean()
IsMappedQuery(car) == car.traccarDeviceId \notin {UndefinedNum, NullNum}
FindMapped == SelectSeq(carsDb, IsMappedQuery)

mapCar(car) ==
  [carId |-> car._id,
   name |-> car.name,
   licensePlate |-> car.licensePlate,
   traccarDeviceId |-> NumOrNull(car.traccarDeviceId),
   traccarUniqueId |-> StrOrNull(car.traccarUniqueId)]

----------------------------------------------------------------------------
(* The telemetry provider (Traccar) and its client *)

\* the position records the provider may hold, by id
TraccarPositions ==
  {[id |-> 900, deviceId |-> 1001, latitude |-> 51, longitude |-> -1,
    speed |-> 10, course |-> UndefinedNum,
    fixTime |-> "t0", deviceTime |-> "t1", serverTime |-> "t2", address |-> Undefined],
   [id |-> 901, deviceId |-> 1002, latitude |-> 40, longitude |-> -3,
    speed |-> UndefinedNum, course |-> 90,
    fixTime |-> Undefined, deviceTime |-> "t3", serverTime |-> "t4", address |-> "Airport"]}

\* an HTTP exchange with the provider: the status (0: no response at all, a
\* network error or the 10 s timeout) and the body
HttpReply(http, data) == [http |-> http, data |-> data]

\* what GET /api/devices/:id may answer: the device with a latest-position
\* pointer of `pointers`, or a failure status of `statuses`
DeviceReplies(deviceId, pointers, statuses) ==
  {HttpReply(200, [id |-> deviceId, positionId |-> p]) : p \in pointers}
    \cup {HttpReply(f, NullObj) : f \in statuses}

\* what GET /api/positions/:id may answer: the stored record of that id, an
\* empty body (when `empty`), or a failure status of `statuses`
PositionReplies(positionId, empty, statuses) ==
  {HttpReply(200, p) : p \in {x \in TraccarPositions : x.id = positionId}}
    \cup {HttpReply(200, NullObj) : e \in {x \in empty : x}}
    \cup {HttpReply(f, NullObj) : f \in statuses}

\* a || b || c on optional strings
FirstTruthy(a, b, c) == IF ~StrFalsy(a) THEN a ELSE IF ~StrFalsy(b) THEN b ELSE c

\* a variant that takes lat and lon from the wrong coordinates
normalizePositionSwapped(position) ==
  [lat |-> position.longitude,
   lon |-> position.latitude,
   speed |-> position.speed,
   course |-> position.course,
   fixTime |-> FirstTruthy(position.fixTime, position.deviceTime, position.serverTime),
   address |-> position.address]

\* a variant without the fallbacks of the timestamp
normalizePositionFixOnly(position) ==
  [lat |-> position.latitude,
   lon |-> position.longitude,
   speed |-> position.speed,
   course |-> position.course,
   fixTime |-> position.fixTime,
   address |-> position.address]

normalizePosition(position) ==
  [lat |-> position.latitude,
   lon |-> position.longitude,
   speed |-> position.speed,
   course |-> position.course,
   fixTime |-> FirstTruthy(position.fixTime, position.deviceTime, position.serverTime),
   address |-> position.address]

\* the outcome of an awaited call: the error thrown (NoError: none) and the value
Returned(value) == [err |-> NoError, value |-> value]
Thrown(err) == [err |-> err, value |-> NullObj]

\* a variant that rethrows every failure, 404 included
getDeviceRethrowAll(reply) ==
  IF reply.http = 200 THEN Returned(reply.data) ELSE Thrown(UPSTREAM_FAILURE)

\* getDevice, from the provider's reply on: 404 is null, any other failure is rethrown
getDevice(reply) ==
  IF reply.http = 200 THEN Returned(reply.data)
  ELSE IF reply.http = 404 THEN Returned(NullObj)
  ELSE Thrown(UPSTREAM_FAILURE)

\* a variant that rethrows every failure, 404 included
getPositionRethrowAll(reply) ==
  IF reply.http = 200
  THEN IF reply.data = NullObj THEN Returned(NullObj)
       ELSE Returned(normalizePosition(reply.data))
  ELSE Thrown(UPSTREAM_FAILURE)

\* getPosition, from the provider's reply on
getPosition(reply) ==
  IF reply.http = 200
  THEN IF reply.data = NullObj THEN Returned(NullObj)
       ELSE Returned(normalizePosition(reply.data))
  ELSE IF reply.http = 404 THEN Returned(NullObj)
  ELSE Thrown(UPSTREAM_FAILURE)

----------------------------------------------------------------------------
(* The rate limiter *)

\* a variant that keys the ledger by caller alone
RateKeyCallerOnly(adminId, scope) == adminId

RateKey(adminId, scope) == adminId \o ":" \o scope

CarScope(carId) == "car-" \o carId
FleetScope == "fleet"

\* lastRequestByAdmin[key], undefined when the key is absent
LedgerGet(ledger, key) == IF key \in DOMAIN ledger THEN ledger[key] ELSE UndefinedNum

\* a variant that replaces the ledger by the one entry written
LedgerPutOnly(ledger, key, t) == [k \in {key} |-> t]

\* lastRequestByAdmin[key] = now
LedgerPut(ledger, key, t) == [k \in DOMAIN ledger \cup {key} |-> IF k = key THEN t ELSE ledger[k]]

\* a variant that records refused requests as well: a sliding window
enforceRateLimitSliding(ledger, t, adminId, scope) ==
  LET key == RateKey(adminId, scope)
      last == LedgerGet(ledger, key)
  IN IF ~NumFalsy(last) /\ t - last < pollIntervalMs
     THEN [ok |-> FALSE, ledger |-> LedgerPut(ledger, key, t)]
     ELSE [ok |-> TRUE, ledger |-> LedgerPut(ledger, key, t)]

\* enforceRateLimit at time t on `ledger`: the result and the ledger it leaves
enforceRateLimit(ledger, t, adminId, scope) ==
  LET key == RateKey(adminId, scope)
      last == LedgerGet(ledger, key)
  IN IF ~NumFalsy(last) /\ t - last < pollIntervalMs
     THEN [ok |-> FALSE, ledger |-> ledger]
     ELSE [ok |-> TRUE, ledger |-> LedgerPut(ledger, key, t)]

----------------------------------------------------------------------------
(* A request being served: the handler's position and locals, the response *)
(* sent, and what it has asked of the registry and the provider so far.    *)

IdleReq ==
  [pc |-> "idle",        \* idle | findById | find | getDevice | getPosition | done
   op |-> "none",        \* car | fleet
   adminId |-> "", carId |-> "",
   at |-> 0,             \* Date.now() on arrival
   car |-> NullObj,      \* the car being resolved
   cars |-> <<>>,        \* fleet: the cars loaded
   idx |-> 0,            \* fleet: the loop's position in cars
   device |-> NullObj,   \* the device the provider returned
   payload |-> <<>>,     \* fleet: payload.cars
   sent |-> 0,           \* responses sent
   code |-> 0,           \* HTTP status of the response
   body |-> NullObj,     \* the response body
   lookups |-> 0,        \* registry queries issued
   lookupFailed |-> FALSE, \* the registry query threw
   calls |-> <<>>,       \* provider calls issued: <<operation, id>>
   reply |-> NullObj]    \* the provider reply received last

NewReq(op, adminId, carId, t) ==
  [IdleReq EXCEPT !.op = op, !.adminId = adminId, !.carId = carId, !.at = t]

\* res.status(code).send(body); return
Send(q, code, body) == [q EXCEPT !.pc = "done", !.sent = @ + 1, !.code = code, !.body = body]

\* a variant that always advertises the default interval
CarTrackingPayloadDefault(status, car, position) ==
  [status |-> status, car |-> car, position |-> position,
   pollAfterSeconds |-> DefaultPollInterval]

CarTrackingPayload(status, car, position) ==
  [status |-> status, car |-> car, position |-> position,
   pollAfterSeconds |-> pollIntervalSeconds]

FleetTrackingPayload(status, cars) ==
  [status |-> status, pollAfterSeconds |-> pollIntervalSeconds, cars |-> cars]

\* admin?.id || 'admin'
AdminKey(adminId) == IF StrFalsy(adminId) THEN "admin" ELSE adminId

\* traccarApi.getDevice(id) / getPosition(id) up to the request going out: the
\* error getClient throws, or the handler waiting for the provider
AwaitProvider(q, pc, id) == [q EXCEPT !.pc = pc, !.calls = Append(@, <<pc, id>>)]

PendingCall(q) == q.calls[Len(q.calls)]

----------------------------------------------------------------------------
(* getCarTracking *)

\* a variant that answers every failure alike
getCarTrackingCatchAll(q, err) ==
  Send(q, 502, CarTrackingPayload("traccar_error", NullObj, NullObj))

\* the catch block
getCarTrackingCatch(q, err) ==
  IF err = TRACCAR_NOT_CONFIGURED
  THEN Send(q, 503, CarTrackingPayload("traccar_not_configured", NullObj, NullObj))
  ELSE Send(q, 502, CarTrackingPayload("traccar_error", NullObj, NullObj))

\* a variant that runs the rate limiter before it validates the identifier
getCarTrackingEntryLimiterFirst(ledger, t, adminId, carId) ==
  LET q == NewReq("car", adminId, carId, t)
      lim == enforceRateLimit(ledger, t, AdminKey(adminId), CarScope(carId))
  IN IF ~lim.ok
     THEN [req |-> Send(q, 429, CarTrackingPayload("rate_limited", NullObj, NullObj)),
           ledger |-> lim.ledger]
     ELSE IF ~isValidObjectId(carId)
     THEN [req |-> Send(q, 400, CarTrackingPayload("car_not_found", NullObj, NullObj)),
           ledger |-> lim.ledger]
     ELSE [req |-> [q EXCEPT !.pc = "findById", !.lookups = @ + 1],
           ledger |-> lim.ledger]

\* from the start to the registry query going out
getCarTrackingEntry(ledger, t, adminId, carId) ==
  LET q == NewReq("car", adminId, carId, t) IN
  IF ~isValidObjectId(carId)
  THEN [req |-> Send(q, 400, CarTrackingPayload("car_not_found", NullObj, NullObj)),
        ledger |-> ledger]
  ELSE LET lim == enforceRateLimit(ledger, t, AdminKey(adminId), CarScope(carId)) IN
       IF ~lim.ok
       THEN [req |-> Send(q, 429, CarTrackingPayload("rate_limited", NullObj, NullObj)),
             ledger |-> lim.ledger]
       ELSE [req |-> [q EXCEPT !.pc = "findById", !.lookups = @ + 1],
             ledger |-> lim.ledger]

\* a variant with the first of the two mapping checks only: a car with a
\* unique id and no device id goes on to the provider
getCarTrackingFoundOneCheck(q, found) ==
  IF found.err # NoError THEN getCarTrackingCatch([q EXCEPT !.lookupFailed = TRUE], found.err)
  ELSE LET car == found.value IN
  IF car = NullObj
  THEN Send(q, 404, CarTrackingPayload("car_not_found", NullObj, NullObj))
  ELSE IF NumFalsy(car.traccarDeviceId) /\ StrFalsy(car.traccarUniqueId)
  THEN Send([q EXCEPT !.car = car], 404, CarTrackingPayload("not_mapped", mapCar(car), NullObj))
  ELSE IF getClient # NoError THEN getCarTrackingCatch(q, getClient)
  ELSE AwaitProvider([q EXCEPT !.car = car], "getDevice", car.traccarDeviceId)

\* from the registry's answer to the device request going out
getCarTrackingFound(q, found) ==
  IF found.err # NoError THEN getCarTrackingCatch([q EXCEPT !.lookupFailed = TRUE], found.err)
  ELSE LET car == found.value IN
  IF car = NullObj
  THEN Send(q, 404, CarTrackingPayload("car_not_found", NullObj, NullObj))
  ELSE IF NumFalsy(car.traccarDeviceId) /\ StrFalsy(car.traccarUniqueId)
  THEN Send([q EXCEPT !.car = car], 404, CarTrackingPayload("not_mapped", mapCar(car), NullObj))
  ELSE IF NumFalsy(car.traccarDeviceId)
  THEN Send([q EXCEPT !.car = car], 404, CarTrackingPayload("not_mapped", mapCar(car), NullObj))
  ELSE IF getClient # NoError THEN getCarTrackingCatch(q, getClient)
  ELSE AwaitProvider([q EXCEPT !.car = car], "getDevice", car.traccarDeviceId)

\* from the device's arrival to the position request going out
getCarTrackingDevice(q, got) ==
  IF got.err # NoError THEN getCarTrackingCatch(q, got.err)
  ELSE LET device == got.value IN
  IF device = NullObj
  THEN Send(q, 404, CarTrackingPayload("device_not_found", mapCar(q.car), NullObj))
  ELSE IF NumFalsy(device.positionId)
  THEN Send([q EXCEPT !.device = device], 200,
            CarTrackingPayload("no_fix_yet", mapCar(q.car), NullObj))
  ELSE IF getClient # NoError THEN getCarTrackingCatch(q, getClient)
  ELSE AwaitProvider([q EXCEPT !.device = device], "getPosition", device.positionId)

\* a variant without the check of the position: an absent position is
\* reported as ok
getCarTrackingPositionNoCheck(q, got) ==
  IF got.err # NoError THEN getCarTrackingCatch(q, got.err)
  ELSE Send(q, 200, CarTrackingPayload("ok", mapCar(q.car), got.value))

\* from the position's arrival to the response
getCarTrackingPosition(q, got) ==
  IF got.err # NoError THEN getCarTrackingCatch(q, got.err)
  ELSE LET position == got.value IN
  IF position = NullObj
  THEN Send(q, 200, CarTrackingPayload("no_fix_yet", mapCar(q.car), NullObj))
  ELSE Send(q, 200, CarTrackingPayload("ok", mapCar(q.car), position))

----------------------------------------------------------------------------
(* getFleetTracking *)

\* the outer catch block
getFleetTrackingCatch(q, err) ==
  IF err = TRACCAR_NOT_CONFIGURED
  THEN Send(q, 503, FleetTrackingPayload("traccar_not_configured", <<>>))
  ELSE Send(q, 502, FleetTrackingPayload("traccar_error", <<>>))

\* { ...trackedCar, status } and { ...trackedCar, status: 'ok', position }
FleetEntry(trackedCar, status) == [status |-> status] @@ trackedCar
FleetEntryOk(trackedCar, position) == [status |-> "ok", position |-> position] @@ trackedCar

\* a variant whose unconfigured abort lacks the return: the loop is left and
\* the payload is sent as well
getFleetTrackingLoopNoReturn(q) ==
  IF q.idx > Len(q.cars)
  THEN Send(q, 200, FleetTrackingPayload("ok", q.payload))
  ELSE LET car == q.cars[q.idx] IN
       IF getClient # NoError
       THEN Send(Send([q EXCEPT !.car = car], 503, FleetTrackingPayload("traccar_not_configured", <<>>)),
                 200, FleetTrackingPayload("ok", q.payload))
       ELSE AwaitProvider([q EXCEPT !.car = car], "getDevice", car.traccarDeviceId)

\* a variant in which a failed vehicle demotes the whole response
getFleetTrackingLoopDemote(q) ==
  IF q.idx > Len(q.cars)
  THEN IF \E i \in 1..Len(q.payload) : q.payload[i].status = "traccar_error"
       THEN Send(q, 502, FleetTrackingPayload("traccar_error", q.payload))
       ELSE Send(q, 200, FleetTrackingPayload("ok", q.payload))
  ELSE LET car == q.cars[q.idx] IN
       IF getClient # NoError
       THEN Send([q EXCEPT !.car = car], 503, FleetTrackingPayload("traccar_not_configured", <<>>))
       ELSE AwaitProvider([q EXCEPT !.car = car], "getDevice", car.traccarDeviceId)

\* the head of the for loop: the next car's device request goes out, or the
\* loop is over and the payload is sent
getFleetTrackingLoop(q) ==
  IF q.idx > Len(q.cars)
  THEN Send(q, 200, FleetTrackingPayload("ok", q.payload))
  ELSE LET car == q.cars[q.idx] IN
       IF getClient # NoError
       THEN \* the inner catch: getClient throws nothing but TRACCAR_NOT_CONFIGURED
            Send([q EXCEPT !.car = car], 503, FleetTrackingPayload("traccar_not_configured", <<>>))
       ELSE AwaitProvider([q EXCEPT !.car = car], "getDevice", car.traccarDeviceId)

\* a variant that puts the entry at the head of the list
getFleetTrackingPushFront(q, entry) ==
  getFleetTrackingLoop([q EXCEPT !.payload = <<entry>> \o @, !.idx = @ + 1, !.device = NullObj])

\* payload.cars.push(entry); continue
getFleetTrackingPush(q, entry) ==
  getFleetTrackingLoop([q EXCEPT !.payload = Append(@, entry), !.idx = @ + 1, !.device = NullObj])

\* a variant that repeats a failed provider call once
getFleetTrackingCarCatchRetry(q, err) ==
  IF err = TRACCAR_NOT_CONFIGURED
  THEN Send(q, 503, FleetTrackingPayload("traccar_not_configured", <<>>))
  ELSE IF Len(q.calls) < 2 \/ q.calls[Len(q.calls) - 1] # PendingCall(q)
  THEN AwaitProvider(q, PendingCall(q)[1], PendingCall(q)[2])
  ELSE getFleetTrackingPush(q, FleetEntry(mapCar(q.car), "traccar_error"))

\* a variant without isolation: a vehicle's failure ends the request
getFleetTrackingCarCatchAbort(q, err) ==
  IF err = TRACCAR_NOT_CONFIGURED
  THEN Send(q, 503, FleetTrackingPayload("traccar_not_configured", <<>>))
  ELSE Send(q, 502, FleetTrackingPayload("traccar_error", <<>>))

\* a variant whose failure ends the request and returns what was collected
getFleetTrackingCarCatchPartial(q, err) ==
  IF err = TRACCAR_NOT_CONFIGURED
  THEN Send(q, 503, FleetTrackingPayload("traccar_not_configured", q.payload))
  ELSE Send(q, 502, FleetTrackingPayload("traccar_error",
                                         Append(q.payload, FleetEntry(mapCar(q.car), "traccar_error"))))

\* the inner catch block
getFleetTrackingCarCatch(q, err) ==
  IF err = TRACCAR_NOT_CONFIGURED
  THEN Send(q, 503, FleetTrackingPayload("traccar_not_configured", <<>>))
  ELSE getFleetTrackingPush(q, FleetEntry(mapCar(q.car), "traccar_error"))

\* a variant that queries the registry whatever the rate limiter says
getFleetTrackingEntryLookupFirst(ledger, t, adminId) ==
  LET q == NewReq("fleet", adminId, "", t)
      lim == enforceRateLimit(ledger, t, AdminKey(adminId), FleetScope)
  IN [req |-> [q EXCEPT !.pc = "find", !.lookups = @ + 1], ledger |-> lim.ledger]

\* from the start to the registry query going out
getFleetTrackingEntry(ledger, t, adminId) ==
  LET q == NewReq("fleet", adminId, "", t)
      lim == enforceRateLimit(ledger, t, AdminKey(adminId), FleetScope)
  IN IF ~lim.ok
     THEN [req |-> Send(q, 429, FleetTrackingPayload("rate_limited", <<>>)),
           ledger |-> lim.ledger]
     ELSE [req |-> [q EXCEPT !.pc = "find", !.lookups = @ + 1],
           ledger |-> lim.ledger]

\* from the registry's answer to the first device request going out
getFleetTrackingFound(q, found) ==
  IF found.err # NoError THEN getFleetTrackingCatch([q EXCEPT !.lookupFailed = TRUE], found.err)
  ELSE getFleetTrackingLoop([q EXCEPT !.cars = found.value, !.idx = 1, !.payload = <<>>])

\* a variant that labels a missing device as the single-vehicle endpoint
\* labels a vehicle without a device
getFleetTrackingDeviceNotMapped(q, got) ==
  IF got.err # NoError THEN getFleetTrackingCarCatch(q, got.err)
  ELSE LET device == got.value IN
  IF device = NullObj
  THEN getFleetTrackingPush(q, FleetEntry(mapCar(q.car), "not_mapped"))
  ELSE IF NumFalsy(device.positionId)
  THEN getFleetTrackingPush([q EXCEPT !.device = device], FleetEntry(mapCar(q.car), "no_fix_yet"))
  ELSE IF getClient # NoError THEN getFleetTrackingCarCatch(q, getClient)
  ELSE AwaitProvider([q EXCEPT !.device = device], "getPosition", device.positionId)

\* from a device's arrival to the next request going out
getFleetTrackingDevice(q, got) ==
  IF got.err # NoError THEN getFleetTrackingCarCatch(q, got.err)
  ELSE LET device == got.value IN
  IF device = NullObj
  THEN getFleetTrackingPush(q, FleetEntry(mapCar(q.car), "device_not_found"))
  ELSE IF NumFalsy(device.positionId)
  THEN getFleetTrackingPush([q EXCEPT !.device = device], FleetEntry(mapCar(q.car), "no_fix_yet"))
  ELSE IF getClient # NoError THEN getFleetTrackingCarCatch(q, getClient)
  ELSE AwaitProvider([q EXCEPT !.device = device], "getPosition", device.positionId)

\* from a position's arrival to the next request going out
getFleetTrackingPosition(q, got) ==
  IF got.err # NoError THEN getFleetTrackingCarCatch(q, got.err)
  ELSE LET position == got.value IN
  IF position = NullObj
  THEN getFleetTrackingPush(q, FleetEntry(mapCar(q.car), "no_fix_yet"))
  ELSE getFleetTrackingPush(q, FleetEntryOk(mapCar(q.car), position))

----------------------------------------------------------------------------
(* The actions *)

Slots == 1..2

\* a request the limiter let in: it was answered neither 400 nor 429
Admitted(q) == q.pc # "idle" /\ q.code \notin {400, 429}

ScopeOf(q) == IF q.op = "car" THEN CarScope(q.carId) ELSE FleetScope

Accept(q, t) == IF Admitted(q) THEN accepted \cup {<<q.adminId, ScopeOf(q), t>>} ELSE accepted

WithReply(q, reply) == [q EXCEPT !.reply = [call |-> PendingCall(q), http |-> reply.http, data |-> reply.data]]

\* the clock advances by d milliseconds
Tick(d, max) ==
  /\ ticks < max
  /\ now' = now + d
  /\ ticks' = ticks + 1
  /\ UNCHANGED <<page, env, carsDb, lastRequestByAdmin, reqs, nRequests, accepted>>

\* GET /api/admin/cars/:carId/tracking arrives
CarTrackingRequest(r, adminId, carId) ==
  /\ reqs[r].pc = "idle"
  /\ LET res == getCarTrackingEntry(lastRequestByAdmin, now, adminId, carId) IN
       /\ reqs' = [reqs EXCEPT ![r] = res.req]
       /\ lastRequestByAdmin' = res.ledger
       /\ accepted' = Accept(res.req, now)
  /\ nRequests' = nRequests + 1
  /\ UNCHANGED <<page, env, carsDb, now, ticks>>

\* GET /api/admin/fleet/tracking arrives
FleetTrackingRequest(r, adminId) ==
  /\ reqs[r].pc = "idle"
  /\ LET res == getFleetTrackingEntry(lastRequestByAdmin, now, adminId) IN
       /\ reqs' = [reqs EXCEPT ![r] = res.req]
       /\ lastRequestByAdmin' = res.ledger
       /\ accepted' = Accept(res.req, now)
  /\ nRequests' = nRequests + 1
  /\ UNCHANGED <<page, env, carsDb, now, ticks>>

\* Car.findById settles: the car or null, or (fails) the query throws
FindByIdReturns(r, fails) ==
  /\ reqs[r].pc = "findById"
  /\ LET found == IF fails THEN Thrown(UPSTREAM_FAILURE) ELSE Returned(FindById(reqs[r].carId))
     IN reqs' = [reqs EXCEPT ![r] = getCarTrackingFound(@, found)]
  /\ UNCHANGED <<page, env, carsDb, now, ticks, lastRequestByAdmin, nRequests, accepted>>

\* Car.find settles: the mapped cars, or (fails) the query throws
FindReturns(r, fails) ==
  /\ reqs[r].pc = "find"
  /\ LET found == IF fails THEN Thrown(UPSTREAM_FAILURE) ELSE Returned(FindMapped)
     IN reqs' = [reqs EXCEPT ![r] = getFleetTrackingFound(@, found)]
  /\ UNCHANGED <<page, env, carsDb, now, ticks, lastRequestByAdmin, nRequests, accepted>>

\* the provider answers the device request of a single-vehicle request
CarDeviceReturns(r, reply) ==
  /\ reqs[r].pc = "getDevice" /\ reqs[r].op = "car"
  /\ reqs' = [reqs EXCEPT ![r] = getCarTrackingDevice(WithReply(@, reply), getDevice(reply))]
  /\ UNCHANGED <<page, env, carsDb, now, ticks, lastRequestByAdmin, nRequests, accepted>>

\* the provider answers the position request of a single-vehicle request
CarPositionReturns(r, reply) ==
  /\ reqs[r].pc = "getPosition" /\ reqs[r].op = "car"
  /\ reqs' = [reqs EXCEPT ![r] = getCarTrackingPosition(WithReply(@, reply), getPosition(reply))]
  /\ UNCHANGED <<page, env, carsDb, now, ticks, lastRequestByAdmin, nRequests, accepted>>

\* the provider answers a device request of a fleet request
FleetDeviceReturns(r, reply) ==
  /\ reqs[r].pc = "getDevice" /\ reqs[r].op = "fleet"
  /\ reqs' = [reqs EXCEPT ![r] = getFleetTrackingDevice(WithReply(@, reply), getDevice(reply))]
  /\ UNCHANGED <<page, env, carsDb, now, ticks, lastRequestByAdmin, nRequests, accepted>>

\* the provider answers a position request of a fleet request
FleetPositionReturns(r, reply) ==
  /\ reqs[r].pc = "getPosition" /\ reqs[r].op = "fleet"
  /\ reqs' = [reqs EXCEPT ![r] = getFleetTrackingPosition(WithReply(@, reply), getPosition(reply))]
  /\ UNCHANGED <<page, env, carsDb, now, ticks, lastRequestByAdmin, nRequests, accepted>>

\* the response has left: the slot is free for the next request
Release(r) ==
  /\ reqs[r].pc = "done"
  /\ reqs' = [reqs EXCEPT ![r] = IdleReq]
  /\ UNCHANGED <<page, env, carsDb, now, ticks, lastRequestByAdmin, nRequests, accepted>>

\* the id the pending provider call of slot r was made with
PendingId(r) == IF reqs[r].calls = <<>> THEN UndefinedNum ELSE PendingCall(reqs[r])[2]

\* the clock's steps: one millisecond short of the interval, and the interval
TickSteps == {pollIntervalMs - 1, pollIntervalMs}

----------------------------------------------------------------------------
(* The admin pages CarTracking and FleetTracking: the polling effect *)

\* no page is open
NoPage ==
  [scope |-> "none",       \* the page's endpoint: car-<carId> or fleet
   effect |-> FALSE,       \* the polling effect is set up
   pollSeconds |-> 0,      \* the pollSeconds state
   timer |-> UndefinedNum, \* when the interval fires next
   pending |-> {},         \* loadData calls awaiting their response
   sent |-> 0,             \* requests issued
   lastSent |-> UndefinedNum] \* when the last request was issued

\* useState(8), before the effect has run
InitialPage(scope) == [NoPage EXCEPT !.scope = scope, !.pollSeconds = 8]

\* Math.max(pollSeconds, 5) * 1000
PollPeriod(pollSeconds) == (IF pollSeconds > 5 THEN pollSeconds ELSE 5) * 1000

\* the backend's answer to a page's request received at time t: 429 when the
\* rate limiter refuses it, else `code`; every answer carries pollAfterSeconds
PageAnswer(ledger, t, scope, code, latency) ==
  LET lim == enforceRateLimit(ledger, t, "a1", scope) IN
  [answer |-> [sentAt |-> t, arrives |-> t + latency,
               code |-> IF lim.ok THEN code ELSE 429,
               pollAfterSeconds |-> pollIntervalSeconds],
   ledger |-> lim.ledger]

\* loadData() up to its await: the request goes out
loadData(pg, t, answer) ==
  [pg EXCEPT !.pending = @ \cup {answer}, !.sent = @ + 1, !.lastSent = t]

\* the effect body: loadData(), then setInterval(loadData, PollPeriod)
RunEffect(pg, t, answer) ==
  [loadData(pg, t, answer) EXCEPT !.effect = TRUE, !.timer = t + PollPeriod(pg.pollSeconds)]

\* the page mounts and its effect runs
PageMounts(code, latency) ==
  /\ page.scope # "none" /\ ~page.effect /\ page.sent < MaxPageRequests
  /\ LET res == PageAnswer(lastRequestByAdmin, now, page.scope, code, latency) IN
       /\ page' = RunEffect(page, now, res.answer)
       /\ lastRequestByAdmin' = res.ledger
  /\ UNCHANGED <<env, carsDb, now, ticks, reqs, nRequests, accepted>>

\* the interval fires: loadData()
PageIntervalFires(code, latency) ==
  /\ page.effect /\ page.timer = now /\ page.sent < MaxPageRequests
  /\ LET res == PageAnswer(lastRequestByAdmin, now, page.scope, code, latency) IN
       /\ page' = [loadData(page, now, res.answer) EXCEPT
                     !.timer = now + PollPeriod(page.pollSeconds)]
       /\ lastRequestByAdmin' = res.ledger
  /\ UNCHANGED <<env, carsDb, now, ticks, reqs, nRequests, accepted>>

\* a response arrives and loadData resumes: a 2xx resolves, anything else
\* rejects and is reported; setPollSeconds with a new value runs the effect's
\* cleanup and the effect again
PageResponseArrives(x, code, latency) ==
  /\ x \in page.pending /\ x.arrives = now
  /\ LET rest == [page EXCEPT !.pending = @ \ {x}] IN
     IF x.code = 200 /\ x.pollAfterSeconds # 0 /\ x.pollAfterSeconds # page.pollSeconds
     THEN /\ page.sent < MaxPageRequests
          /\ LET res == PageAnswer(lastRequestByAdmin, now, page.scope, code, latency) IN
               /\ page' = RunEffect([rest EXCEPT !.pollSeconds = x.pollAfterSeconds], now, res.answer)
               /\ lastRequestByAdmin' = res.ledger
     ELSE /\ page' = rest
          /\ lastRequestByAdmin' = lastRequestByAdmin
  /\ UNCHANGED <<env, carsDb, now, ticks, reqs, nRequests, accepted>>

\* the times at which the page has something to do
PageEvents ==
  {x.arrives : x \in page.pending}
    \cup (IF page.effect /\ page.sent < MaxPageRequests THEN {page.timer} ELSE {})

\* time passes until the page's next event
PageWaits ==
  /\ PageEvents # {} /\ \A e \in PageEvents : e > now
  /\ now' = CHOOSE e \in PageEvents : \A f \in PageEvents : e <= f
  /\ UNCHANGED <<page, env, carsDb, ticks, lastRequestByAdmin, reqs, nRequests, accepted>>

\* the process starts when the clock reads t
InitAt(t, envs, registries) ==
  /\ page = NoPage
  /\ env \in envs
  /\ carsDb \in registries
  /\ now = t
  /\ ticks = 0
  /\ lastRequestByAdmin = <<>>
  /\ reqs = [r \in Slots |-> IdleReq]
  /\ nRequests = 0
  /\ accepted = {}

InitWith(envs, registries) == InitAt(0, envs, registries)

----------------------------------------------------------------------------
(* Spec: one admin polls either endpoint, each request answered before the *)
(* next arrives, over every deployment, registry and provider answer.      *)

Pointers == {UndefinedNum, 0, 900}
Failures == {404, 500, 0}

Init == InitWith(EnvChoices({0}), Registries)

\* the handlers read the clock on arrival only: here it advances between requests
Next ==
  \/ \E d \in TickSteps : reqs[1].pc = "idle" /\ Tick(d, MaxTicks)
  \/ Release(1)
  \/ \E c \in CarIds : nRequests < MaxRequests /\ CarTrackingRequest(1, "a1", c)
  \/ nRequests < MaxRequests /\ FleetTrackingRequest(1, "a1")
  \/ \E fails \in BOOLEAN : FindByIdReturns(1, fails)
  \/ \E fails \in BOOLEAN : FindReturns(1, fails)
  \/ \E reply \in DeviceReplies(PendingId(1), Pointers, Failures) : CarDeviceReturns(1, reply)
  \/ \E reply \in PositionReplies(PendingId(1), {TRUE}, Failures) : CarPositionReturns(1, reply)
  \/ \E reply \in DeviceReplies(PendingId(1), Pointers, Failures) : FleetDeviceReturns(1, reply)
  \/ \E reply \in PositionReplies(PendingId(1), {TRUE}, Failures) : FleetPositionReturns(1, reply)

Spec == Init /\ [][Next]_vars

----------------------------------------------------------------------------
(* SpecLimiter: two admins poll two vehicles and the fleet, their requests *)
(* overlapping, against a configured provider that answers.                *)

Admins == {"a1", "a2"}
PolledCars == {"c1", "c2"}

InitLimiter == InitWith({ConfiguredEnv(0)}, {SubSeq(Catalog, 1, 1)})

NextLimiter ==
  \/ \E d \in TickSteps : Tick(d, MaxPollTicks)
  \/ \E r \in Slots : Release(r)
  \/ \E r \in Slots, a \in Admins, c \in PolledCars :
       nRequests < MaxPolls /\ CarTrackingRequest(r, a, c)
  \/ \E r \in Slots, a \in Admins : nRequests < MaxPolls /\ FleetTrackingRequest(r, a)
  \/ \E r \in Slots : FindByIdReturns(r, FALSE)
  \/ \E r \in Slots : FindReturns(r, FALSE)
  \/ \E r \in Slots : \E reply \in DeviceReplies(PendingId(r), {900}, {}) : CarDeviceReturns(r, reply)
  \/ \E r \in Slots : \E reply \in PositionReplies(PendingId(r), {}, {}) : CarPositionReturns(r, reply)
  \/ \E r \in Slots : \E reply \in DeviceReplies(PendingId(r), {900}, {}) : FleetDeviceReturns(r, reply)
  \/ \E r \in Slots : \E reply \in PositionReplies(PendingId(r), {}, {}) : FleetPositionReturns(r, reply)

SpecLimiter == InitLimiter /\ [][NextLimiter]_vars

----------------------------------------------------------------------------
(* What the claims speak of *)

\* slot r receives a request in this step
Arrives(r) == reqs[r].pc = "idle" /\ reqs'[r].pc # "idle"

InFlight(q) == q.pc \notin {"idle", "done"}

\* the request was given to the rate limiter: its identifier is well-formed
Limited(q) == q.op = "fleet" \/ (q.op = "car" /\ isValidObjectId(q.carId))

\* the times at which requests of the partition (adminId, scope) were let in
AcceptedTimes(adminId, scope) == {x[3] : x \in {y \in accepted : y[1] = adminId /\ y[2] = scope}}

Scopes == {CarScope(c) : c \in ObjectIds} \cup {FleetScope}

----------------------------------------------------------------------------
(* C1: enforceRateLimit(adminId, scope) at time now returns true and sets  *)
(* the key's entry to now iff the key has no entry or now minus the entry  *)
(* is at least the interval; otherwise it returns false and leaves the     *)
(* ledger as it is.  Stated of every ledger and clock the program reaches, *)
(* an entry of 0 included.                                                 *)

C1_Expected(ledger, t, adminId, scope) ==
  LET key == RateKey(adminId, scope)
      admit == key \notin DOMAIN ledger \/ t - ledger[key] >= pollIntervalMs
  IN [ok |-> admit, ledger |-> IF admit THEN LedgerPut(ledger, key, t) ELSE ledger]

C1_EnforceRateLimitContract ==
  \A a \in Admins, scope \in Scopes :
    enforceRateLimit(lastRequestByAdmin, now, a, scope)
      = C1_Expected(lastRequestByAdmin, now, a, scope)

----------------------------------------------------------------------------
(* C2: a request that arrives less than the interval after an accepted     *)
(* request of the same caller and scope is answered rate_limited, so two   *)
(* accepted requests of one key are at least the interval apart; a request *)
(* that arrives at least the interval after every accepted one is let in.  *)

C2_MinimumSpacingStep ==
  \A r \in Slots :
    Arrives(r) /\ Limited(reqs'[r]) =>
      LET q == reqs'[r]
          recent == \E t \in AcceptedTimes(q.adminId, ScopeOf(q)) : now - t < pollIntervalMs
      IN /\ recent => q.pc = "done" /\ q.code = 429 /\ q.body.status = "rate_limited"
         /\ ~recent => Admitted(q)

C2_MinimumSpacing == [][C2_MinimumSpacingStep]_vars

----------------------------------------------------------------------------
(* C3: of two requests of one key that overlap, the later is not let in    *)
(* when it arrives less than the interval after the earlier, whatever the  *)
(* interleaving of the two handlers around their awaited calls.            *)

C3_ConcurrentCheckAndSetStep ==
  \A r, o \in Slots :
    /\ r # o /\ Arrives(r) /\ Limited(reqs'[r])
    /\ InFlight(reqs[o]) /\ reqs[o].adminId = reqs'[r].adminId /\ ScopeOf(reqs[o]) = ScopeOf(reqs'[r])
    /\ now - reqs[o].at < pollIntervalMs
    => ~Admitted(reqs'[r])

C3_ConcurrentCheckAndSet == [][C3_ConcurrentCheckAndSetStep]_vars

----------------------------------------------------------------------------
(* C4: partition keys are independent.  A request leaves the ledger entry  *)
(* of every key but its own as it was, and it is turned away only on       *)
(* account of an accepted request of its own caller and scope: one caller  *)
(* asking for two vehicles, or a vehicle and the fleet, or two callers     *)
(* asking for one scope, at the same instant, are all let in.              *)

C4_KeysIndependentStep ==
  \A r \in Slots :
    Arrives(r) /\ Limited(reqs'[r]) =>
      LET q == reqs'[r] IN
      /\ \A k \in (DOMAIN lastRequestByAdmin \cup DOMAIN lastRequestByAdmin')
                    \ {q.adminId \o ":" \o ScopeOf(q)} :
           /\ k \in DOMAIN lastRequestByAdmin /\ k \in DOMAIN lastRequestByAdmin'
           /\ lastRequestByAdmin'[k] = lastRequestByAdmin[k]
      /\ ~Admitted(q) => \E t \in AcceptedTimes(q.adminId, ScopeOf(q)) : now - t < pollIntervalMs

C4_KeysIndependent == [][C4_KeysIndependentStep]_vars

\* two requests let in at the same instant, in flight together: one caller's
\* request for a vehicle and for the fleet
C4_Witness ==
  /\ InFlight(reqs[1]) /\ InFlight(reqs[2])
  /\ reqs[1].at = reqs[2].at /\ reqs[1].at > 0
  /\ reqs[1].adminId = reqs[2].adminId
  /\ reqs[1].op = "car" /\ reqs[2].op = "fleet"
  /\ Cardinality(DOMAIN lastRequestByAdmin) = 2

----------------------------------------------------------------------------
(* The responses the claims expect, written out field by field *)

SummaryOf(car) ==
  [carId |-> car._id, name |-> car.name, licensePlate |-> car.licensePlate,
   traccarDeviceId |-> IF car.traccarDeviceId \in {UndefinedNum, NullNum} THEN NullNum
                       ELSE car.traccarDeviceId,
   traccarUniqueId |-> IF car.traccarUniqueId \in {Undefined, Null} THEN Null
                       ELSE car.traccarUniqueId]

CarAnswer(status, car, position) ==
  [status |-> status, car |-> car, position |-> position, pollAfterSeconds |-> DefaultPollInterval]

FleetAnswer(status, cars) ==
  [status |-> status, pollAfterSeconds |-> DefaultPollInterval, cars |-> cars]

Answered(q, code, body) == q.pc = "done" /\ q.sent = 1 /\ q.code = code /\ q.body = body

\* the provider call answered last was `op`, and it was answered with `http`
LastReply(q, op, http) == q.reply # NullObj /\ q.reply.call[1] = op /\ q.reply.http = http

PositionCalls(q) == {i \in 1..Len(q.calls) : q.calls[i][1] = "getPosition"}

----------------------------------------------------------------------------
(* C5: a single-vehicle request with a malformed identifier is answered    *)
(* car_not_found, code 400, before the rate limiter runs: the ledger is    *)
(* left as it was, the answer is never rate_limited, and neither the       *)
(* registry nor the provider is asked anything.                            *)

C5_MalformedIdStep ==
  \A r \in Slots :
    Arrives(r) /\ reqs'[r].op = "car" /\ reqs'[r].carId = MalformedId =>
      /\ Answered(reqs'[r], 400, CarAnswer("car_not_found", NullObj, NullObj))
      /\ reqs'[r].lookups = 0 /\ reqs'[r].calls = <<>>
      /\ lastRequestByAdmin' = lastRequestByAdmin

C5_MalformedId == [][C5_MalformedIdStep]_vars

\* a malformed request answered while the caller's window for another
\* vehicle is open
C5_Witness ==
  /\ reqs[1].carId = MalformedId /\ reqs[1].code = 400
  /\ \E x \in accepted : now - x[3] < pollIntervalMs /\ x[3] > 0

----------------------------------------------------------------------------
(* C6: a request the rate limiter does not let in is answered rate_limited *)
(* with code 429 and asks nothing of the registry or the provider, whether *)
(* or not the vehicle exists; the fleet answer carries an empty list.      *)

C6_RateLimitedStep ==
  \A r \in Slots :
    Arrives(r) /\ Limited(reqs'[r]) =>
      LET q == reqs'[r]
          lim == enforceRateLimit(lastRequestByAdmin, now, AdminKey(q.adminId), ScopeOf(q))
      IN ~lim.ok =>
           /\ q.lookups = 0 /\ q.calls = <<>>
           /\ q.op = "car" => Answered(q, 429, CarAnswer("rate_limited", NullObj, NullObj))
           /\ q.op = "fleet" => Answered(q, 429, FleetAnswer("rate_limited", <<>>))

C6_RateLimited == [][C6_RateLimitedStep]_vars

\* rate_limited for a well-formed identifier that names no vehicle
C6_Witness ==
  /\ reqs[1].op = "car" /\ reqs[1].code = 429 /\ reqs[1].body.status = "rate_limited"
  /\ FindById(reqs[1].carId) = NullObj

----------------------------------------------------------------------------
(* C7: a single-vehicle request that is let in, for a vehicle the registry *)
(* holds without a provider device id, is answered not_mapped, code 404,   *)
(* position null, with no provider call, with or without a unique id and   *)
(* whether or not the provider is configured.                              *)

C7_NotMapped ==
  \A r \in Slots :
    LET q == reqs[r] IN
    ( /\ q.op = "car" /\ q.pc = "done" /\ q.lookups = 1 /\ ~q.lookupFailed
      /\ FindById(q.carId) # NullObj
      /\ FindById(q.carId).traccarDeviceId \in {UndefinedNum, NullNum} )
    => /\ Answered(q, 404, CarAnswer("not_mapped", SummaryOf(FindById(q.carId)), NullObj))
       /\ q.calls = <<>>

\* not_mapped for a vehicle with a unique id only, the provider unconfigured
C7_Witness ==
  /\ reqs[1].op = "car" /\ reqs[1].pc = "done" /\ reqs[1].code = 404
  /\ reqs[1].body.status = "not_mapped"
  /\ reqs[1].car # NullObj /\ reqs[1].car.traccarUniqueId = "demo-imei-1003"
  /\ getClient = TRACCAR_NOT_CONFIGURED

----------------------------------------------------------------------------
(* C8: when the provider answers 404 to the device request of a vehicle,   *)
(* the vehicle's outcome is device_not_found without a position (code 404  *)
(* on the single-vehicle endpoint) and no position is requested for it.    *)

C8_DeviceNotFound ==
  \A r \in Slots :
    LET q == reqs[r] IN
    LastReply(q, "getDevice", 404) =>
      /\ q.pc # "getPosition"
      /\ q.op = "car" =>
           /\ Answered(q, 404, CarAnswer("device_not_found", SummaryOf(FindById(q.carId)), NullObj))
           /\ q.calls = << <<"getDevice", FindById(q.carId).traccarDeviceId>> >>
      /\ q.op = "fleet" =>
           LET n == Len(q.payload)
               asked == Len(q.calls) - (IF q.pc = "done" THEN 0 ELSE 1)
           IN /\ n >= 1
              /\ q.payload[n] = [status |-> "device_not_found"] @@ SummaryOf(q.cars[n])
              /\ q.calls[asked] = <<"getDevice", q.cars[n].traccarDeviceId>>
              /\ q.reply.call = q.calls[asked]

\* device_not_found on the single-vehicle endpoint
C8_Witness ==
  /\ reqs[1].op = "car" /\ reqs[1].code = 404 /\ reqs[1].body.status = "device_not_found"
  /\ LastReply(reqs[1], "getDevice", 404)

----------------------------------------------------------------------------
(* C9: for a mapped vehicle whose device the provider returns, the answer  *)
(* is no_fix_yet, position null, code 200, both when the device has no     *)
(* latest-position pointer, in which case no position is requested, and    *)
(* when the provider answers 404 to the request for the position pointed   *)
(* to; in the fleet the vehicle's entry is no_fix_yet without a position.  *)

C9_NoFixYet ==
  \A r \in Slots :
    LET q == reqs[r]
        noPointer == LastReply(q, "getDevice", 200)
                       /\ q.reply.data.positionId \in {UndefinedNum, NullNum, 0}
        missing == LastReply(q, "getPosition", 404)
    IN /\ noPointer => q.pc # "getPosition"
       /\ (q.op = "car" /\ (noPointer \/ missing)) =>
            /\ Answered(q, 200, CarAnswer("no_fix_yet", SummaryOf(FindById(q.carId)), NullObj))
            /\ noPointer => PositionCalls(q) = {}
       /\ (q.op = "fleet" /\ (noPointer \/ missing)) =>
            LET n == Len(q.payload) IN
            /\ n >= 1
            /\ q.payload[n] = [status |-> "no_fix_yet"] @@ SummaryOf(q.cars[n])

\* no_fix_yet because the position pointed to is gone
C9_Witness ==
  /\ reqs[1].op = "car" /\ reqs[1].code = 200 /\ reqs[1].body.status = "no_fix_yet"
  /\ LastReply(reqs[1], "getPosition", 404)

----------------------------------------------------------------------------
(* C10: a single-vehicle request let in for a vehicle with a device id,    *)
(* whose device has a latest-position pointer and whose position the       *)
(* provider returns, is answered ok, code 200, with the vehicle's summary  *)
(* and the position the pointer names: lat and lon are the record's        *)
(* latitude and longitude, speed, course and address are the record's.     *)

C10_Ok ==
  \A r \in Slots :
    LET q == reqs[r] IN
    (q.op = "car" /\ LastReply(q, "getPosition", 200) /\ q.reply.data # NullObj) =>
      LET car == FindById(q.carId)
          rec == CHOOSE p \in TraccarPositions : p.id = q.device.positionId
      IN /\ q.calls = << <<"getDevice", car.traccarDeviceId>>,
                         <<"getPosition", q.device.positionId>> >>
         /\ q.reply.data = rec
         /\ Answered(q, 200,
              CarAnswer("ok", SummaryOf(car),
                [lat |-> rec.latitude, lon |-> rec.longitude, speed |-> rec.speed,
                 course |-> rec.course,
                 fixTime |-> FirstTruthy(rec.fixTime, rec.deviceTime, rec.serverTime),
                 address |-> rec.address]))

\* the demo sedan at position 900
C10_Witness ==
  /\ reqs[1].op = "car" /\ reqs[1].code = 200 /\ reqs[1].body.status = "ok"
  /\ reqs[1].body.car.carId = "c1"
  /\ reqs[1].body.position.lat = 51 /\ reqs[1].body.position.lon = -1

----------------------------------------------------------------------------
(* C11: on the single-vehicle endpoint, with the provider unconfigured the *)
(* first provider contact of a mapped vehicle gives traccar_not_configured *)
(* with code 503, and any other failure of a provider call (no response,   *)
(* a status other than 404) gives traccar_error with code 502.  As         *)
(* amended: traccar_error/502 comes from a failed provider call or from a  *)
(* failed registry lookup, and from nothing else.                          *)

Unconfigured ==
  env.TRACCAR_BASE_URL = "" \/ env.TRACCAR_USER = "" \/ env.TRACCAR_PASS = ""

\* the provider call answered last failed: no response, or a status other than 404
ProviderFailed(q) == q.reply # NullObj /\ q.reply.http \notin {200, 404}

C11_Classified(q) ==
  /\ ( /\ q.pc = "done" /\ q.lookups = 1 /\ ~q.lookupFailed /\ Unconfigured
       /\ FindById(q.carId) # NullObj
       /\ FindById(q.carId).traccarDeviceId \notin {UndefinedNum, NullNum, 0} )
     => /\ Answered(q, 503, CarAnswer("traccar_not_configured", NullObj, NullObj))
        /\ q.calls = <<>>
  /\ ProviderFailed(q) => Answered(q, 502, CarAnswer("traccar_error", NullObj, NullObj))
  /\ q.code = 503 => Unconfigured

C11_ProviderErrors ==
  \A r \in Slots :
    LET q == reqs[r] IN
    q.op = "car" =>
      /\ C11_Classified(q)
      /\ q.code = 502 => (ProviderFailed(q) \/ q.lookupFailed)

\* C11 as first stated: traccar_error/502 comes from a failed provider call only
C11_Original ==
  \A r \in Slots :
    LET q == reqs[r] IN
    q.op = "car" =>
      /\ C11_Classified(q)
      /\ q.code = 502 => ProviderFailed(q)

\* the provider gave no response to the position request: traccar_error, 502
C11_Witness ==
  /\ reqs[1].op = "car" /\ reqs[1].code = 502 /\ reqs[1].body.status = "traccar_error"
  /\ reqs[1].reply # NullObj /\ reqs[1].reply.call[1] = "getPosition" /\ reqs[1].reply.http = 0

----------------------------------------------------------------------------
(* C12: a fleet request let in while the provider is unconfigured is       *)
(* answered traccar_not_configured at the top level, code 503, with an     *)
(* empty list, however many vehicles are mapped, none included.            *)

C12_FleetUnconfigured ==
  \A r \in Slots :
    LET q == reqs[r] IN
    (q.op = "fleet" /\ q.pc = "done" /\ q.lookups = 1 /\ ~q.lookupFailed /\ Unconfigured)
      => Answered(q, 503, FleetAnswer("traccar_not_configured", <<>>))

----------------------------------------------------------------------------
(* C13: in a fleet request a provider failure other than 'unconfigured'    *)
(* while one vehicle is resolved stays with that vehicle: its entry is     *)
(* traccar_error, the loop goes on to the next vehicle, each entry carries *)
(* the outcome of its own vehicle's provider answers, the entries already  *)
(* recorded stay as they are, and the response is ok with code 200.        *)

\* the outcome a vehicle's resolution ends with on this provider answer;
\* "pending" when the answer is a device with a pointer
OutcomeOf(reply) ==
  IF reply.http \notin {200, 404} THEN "traccar_error"
  ELSE IF reply.call[1] = "getDevice"
  THEN IF reply.http = 404 THEN "device_not_found"
       ELSE IF reply.data.positionId \in {UndefinedNum, NullNum, 0} THEN "no_fix_yet"
       ELSE "pending"
  ELSE IF reply.http = 200 /\ reply.data # NullObj THEN "ok" ELSE "no_fix_yet"

C13_FailureIsolatedStep ==
  \A r \in Slots :
    ( /\ reqs[r].op = "fleet" /\ reqs[r].pc \in {"getDevice", "getPosition"}
      /\ reqs'[r] # reqs[r] )
    => LET q == reqs'[r]
           n == Len(reqs[r].payload) + 1
           outcome == OutcomeOf(q.reply)
       IN IF outcome = "pending"
          THEN q.payload = reqs[r].payload /\ q.pc = "getPosition"
          ELSE /\ Len(q.payload) = n /\ SubSeq(q.payload, 1, n - 1) = reqs[r].payload
               /\ q.payload[n].status = outcome
               /\ q.payload[n].carId = q.cars[n]._id
               /\ outcome = "traccar_error" =>
                    q.payload[n] = [status |-> "traccar_error"] @@ SummaryOf(q.cars[n])
               /\ IF n < Len(q.cars)
                  THEN /\ q.pc = "getDevice"
                       /\ PendingCall(q) = <<"getDevice", q.cars[n + 1].traccarDeviceId>>
                  ELSE Answered(q, 200, FleetAnswer("ok", q.payload))

C13_FailureIsolated == [][C13_FailureIsolatedStep]_vars

\* the second of three vehicles failed; the first and the third have their own outcomes
C13_Witness ==
  /\ reqs[1].op = "fleet" /\ reqs[1].pc = "done" /\ reqs[1].code = 200
  /\ reqs[1].body.status = "ok" /\ Len(reqs[1].body.cars) = 3
  /\ reqs[1].body.cars[1].status = "ok"
  /\ reqs[1].body.cars[2].status = "traccar_error"
  /\ reqs[1].body.cars[3].status = "no_fix_yet"

----------------------------------------------------------------------------
(* C14: a fleet response that was processed to the end holds one entry for *)
(* each vehicle the mapped-vehicle query returned, with that vehicle's id, *)
(* in the order of the query's result, whatever the vehicles' outcomes.    *)

C14_OneEntryPerVehicle ==
  \A r \in Slots :
    LET q == reqs[r] IN
    (q.op = "fleet" /\ q.pc = "done" /\ q.code = 200) =>
      LET loaded == SelectSeq(carsDb, LAMBDA car : car.traccarDeviceId \notin {UndefinedNum, NullNum})
      IN /\ Len(q.body.cars) = Len(loaded)
         /\ \A i \in 1..Len(loaded) : q.body.cars[i].carId = loaded[i]._id

\* three vehicles, three different outcomes
C14_Witness ==
  /\ reqs[1].op = "fleet" /\ reqs[1].pc = "done" /\ reqs[1].code = 200
  /\ Len(reqs[1].body.cars) = 3
  /\ reqs[1].body.cars[1].status = "device_not_found"
  /\ reqs[1].body.cars[2].status = "ok"
  /\ reqs[1].body.cars[3].status = "traccar_error"

----------------------------------------------------------------------------
(* C15: the top-level status of a fleet response.  As amended: it is one   *)
(* of ok, rate_limited, traccar_not_configured and traccar_error; a        *)
(* response processed to the end is ok whatever its vehicles' outcomes;    *)
(* rate_limited is the rate limiter's refusal, traccar_not_configured the  *)
(* unconfigured provider, and traccar_error (502, empty list) is given     *)
(* when, and only when, loading the vehicles from the registry fails.      *)

C15_Common(q) ==
  /\ q.body.status = "ok" <=> q.code = 200
  /\ q.body.status = "rate_limited" <=> q.code = 429
  /\ q.body.status = "rate_limited" <=> q.lookups = 0
  /\ q.body.status = "traccar_not_configured" =>
       q.code = 503 /\ Unconfigured /\ q.body.cars = <<>>
  /\ (q.lookups = 1 /\ ~q.lookupFailed /\ ~Unconfigured) =>
       q.body.status = "ok" /\ Len(q.body.cars) = Len(q.cars)

C15_TopLevelStatus ==
  \A r \in Slots :
    LET q == reqs[r] IN
    (q.op = "fleet" /\ q.pc = "done") =>
      /\ q.body.status \in {"ok", "rate_limited", "traccar_not_configured", "traccar_error"}
      /\ C15_Common(q)
      /\ q.body.status = "traccar_error" <=> q.lookupFailed
      /\ q.body.status = "traccar_error" => q.code = 502 /\ q.body.cars = <<>>

\* C15 as first stated: no fleet response is traccar_error at the top level
C15_Original ==
  \A r \in Slots :
    LET q == reqs[r] IN
    (q.op = "fleet" /\ q.pc = "done") =>
      /\ q.body.status \in {"ok", "rate_limited", "traccar_not_configured"}
      /\ C15_Common(q)

\* every vehicle failed and the response is ok
C15_Witness ==
  /\ reqs[1].op = "fleet" /\ reqs[1].pc = "done" /\ reqs[1].body.status = "ok"
  /\ Len(reqs[1].body.cars) = 2
  /\ \A i \in 1..2 : reqs[1].body.cars[i].status = "traccar_error"

----------------------------------------------------------------------------
(* SpecPoll: as Spec, over deployments with the minimum poll interval      *)
(* unset and set to 7 seconds, one registry, the clock started at 1 ms.    *)

InitPoll ==
  InitAt(1, {ConfiguredEnv(0), ConfiguredEnv(7),
             [ConfiguredEnv(0) EXCEPT !.TRACCAR_BASE_URL = ""],
             [ConfiguredEnv(7) EXCEPT !.TRACCAR_BASE_URL = ""]},
         {SubSeq(Catalog, 1, 4)})

SpecPoll == InitPoll /\ [][Next]_vars

----------------------------------------------------------------------------
(* C16: every response of either endpoint, whatever its code, carries      *)
(* pollAfterSeconds equal to the configured minimum interval (5 when it is *)
(* unset), and that is the interval the rate limiter enforces: a request   *)
(* is turned away exactly when it comes within pollAfterSeconds of an      *)
(* accepted request of its key.                                            *)

ConfiguredInterval ==
  IF env.TRACCAR_MIN_POLL_INTERVAL = 0 THEN 5 ELSE env.TRACCAR_MIN_POLL_INTERVAL

C16_Carried ==
  \A r \in Slots :
    reqs[r].pc = "done" =>
      /\ reqs[r].sent = 1
      /\ reqs[r].body.pollAfterSeconds = ConfiguredInterval

C16_EnforcedStep ==
  \A r \in Slots :
    Arrives(r) /\ Limited(reqs'[r]) =>
      LET q == reqs'[r]
          times == AcceptedTimes(q.adminId, ScopeOf(q))
      IN /\ q.code = 429 <=> \E t \in times : now - t < ConfiguredInterval * 1000
         /\ q.code = 429 => \E t \in times : now - t < q.body.pollAfterSeconds * 1000

C16_PollAfterSeconds == []C16_Carried /\ [][C16_EnforcedStep]_vars

\* the interval is 7 seconds: turned away 6999 ms after the accepted request
C16_Witness ==
  /\ reqs[1].pc = "done" /\ reqs[1].code = 429 /\ reqs[1].body.pollAfterSeconds = 7
  /\ \E x \in accepted : now - x[3] = 6999

----------------------------------------------------------------------------
(* SpecNormalize: the demo sedan is polled and the provider returns, for   *)
(* position 900, a record with any of its optional fields present or       *)
(* omitted (a timestamp the provider sends is an ISO 8601 string).         *)

Position900Records ==
  {[id |-> 900, deviceId |-> 1001, latitude |-> c[1], longitude |-> c[2],
    speed |-> sp, course |-> co, fixTime |-> f, deviceTime |-> d, serverTime |-> sv,
    address |-> a] :
     c \in {<<51, -1>>, <<40, -3>>}, sp \in {UndefinedNum, 10}, co \in {UndefinedNum, 90},
     f \in {Undefined, "t0"}, d \in {Undefined, "t1"}, sv \in {Undefined, "t2"},
     a \in {Undefined, "Airport"}}

InitNormalize == InitWith({ConfiguredEnv(0)}, {SubSeq(Catalog, 1, 1)})

NextNormalize ==
  \/ \E d \in TickSteps : reqs[1].pc = "idle" /\ Tick(d, MaxTicks)
  \/ Release(1)
  \/ nRequests < MaxRequests /\ CarTrackingRequest(1, "a1", "c1")
  \/ FindByIdReturns(1, FALSE)
  \/ CarDeviceReturns(1, HttpReply(200, [id |-> PendingId(1), positionId |-> 900]))
  \/ \E p \in Position900Records : CarPositionReturns(1, HttpReply(200, p))

SpecNormalize == InitNormalize /\ [][NextNormalize]_vars

----------------------------------------------------------------------------
(* C17: the timestamp of a normalized position is the record's fixTime     *)
(* when it has one, else its deviceTime when it has one, else its          *)
(* serverTime, and is absent only when the record has none of the three;   *)
(* lat, lon, speed, course and address are the record's, unchanged.        *)

C17_TimestampPrecedence ==
  \A r \in Slots :
    LET q == reqs[r] IN
    (q.op = "car" /\ LastReply(q, "getPosition", 200) /\ q.reply.data # NullObj) =>
      LET rec == q.reply.data
          pos == q.body.position
      IN /\ q.body.status = "ok"
         /\ pos.lat = rec.latitude /\ pos.lon = rec.longitude
         /\ pos.speed = rec.speed /\ pos.course = rec.course /\ pos.address = rec.address
         /\ rec.fixTime # Undefined => pos.fixTime = rec.fixTime
         /\ (rec.fixTime = Undefined /\ rec.deviceTime # Undefined) => pos.fixTime = rec.deviceTime
         /\ (rec.fixTime = Undefined /\ rec.deviceTime = Undefined) => pos.fixTime = rec.serverTime
         /\ pos.fixTime = Undefined <=>
              (rec.fixTime = Undefined /\ rec.deviceTime = Undefined /\ rec.serverTime = Undefined)

\* a record without fixTime and with deviceTime
C17_Witness ==
  /\ reqs[1].pc = "done" /\ reqs[1].code = 200 /\ reqs[1].body.status = "ok"
  /\ reqs[1].reply.data.fixTime = Undefined /\ reqs[1].reply.data.serverTime = "t2"
  /\ reqs[1].body.position.fixTime = "t1"

----------------------------------------------------------------------------
(* C18: the two endpoints agree on every vehicle.  A vehicle is in the     *)
(* fleet result iff the single-vehicle endpoint does not answer not_mapped *)
(* for it, whatever its device id, 0 included; and on the same provider    *)
(* answers its fleet entry has the status of its single-vehicle response.  *)

\* the fleet handler run on `car` alone with the provider answers the
\* single-vehicle request q received
FleetReplay(q, car) ==
  LET loaded == getFleetTrackingFound(
                  [NewReq("fleet", q.adminId, "", q.at) EXCEPT !.pc = "find", !.lookups = 1],
                  Returned(<<car>>))
      first == IF Len(q.calls) = 1 THEN [http |-> q.reply.http, data |-> q.reply.data]
               ELSE HttpReply(200, q.device)
      afterDevice == getFleetTrackingDevice(WithReply(loaded, first), getDevice(first))
  IN IF Len(q.calls) = 1 THEN afterDevice
     ELSE getFleetTrackingPosition(
            WithReply(afterDevice, [http |-> q.reply.http, data |-> q.reply.data]),
            getPosition([http |-> q.reply.http, data |-> q.reply.data]))

C18_EndpointsAgree ==
  \A r \in Slots :
    LET q == reqs[r] IN
    ( /\ q.op = "car" /\ q.pc = "done" /\ q.lookups = 1 /\ ~q.lookupFailed
      /\ FindById(q.carId) # NullObj /\ ~Unconfigured )
    => LET car == FindById(q.carId)
           inFleet == \E k \in 1..Len(FindMapped) : FindMapped[k]._id = car._id
       IN /\ inFleet <=> q.body.status # "not_mapped"
          /\ (inFleet /\ q.calls # <<>>) =>
               LET fleet == FleetReplay(q, car) IN
               /\ fleet.pc = "done" /\ Len(fleet.body.cars) = 1
               /\ fleet.body.cars[1].status = q.body.status

----------------------------------------------------------------------------
(* SpecLive: as Spec, over a configured and an unconfigured deployment and *)
(* one registry, where every registry and provider call that is awaited    *)
(* eventually returns or fails.                                            *)

InitLive ==
  InitWith({ConfiguredEnv(0), [ConfiguredEnv(0) EXCEPT !.TRACCAR_USER = ""]},
           {SubSeq(Catalog, 1, 4)})

\* an awaited call of slot 1 settles
Settles ==
  \/ \E fails \in BOOLEAN : FindByIdReturns(1, fails)
  \/ \E fails \in BOOLEAN : FindReturns(1, fails)
  \/ \E reply \in DeviceReplies(PendingId(1), Pointers, Failures) : CarDeviceReturns(1, reply)
  \/ \E reply \in PositionReplies(PendingId(1), {TRUE}, Failures) : CarPositionReturns(1, reply)
  \/ \E reply \in DeviceReplies(PendingId(1), Pointers, Failures) : FleetDeviceReturns(1, reply)
  \/ \E reply \in PositionReplies(PendingId(1), {TRUE}, Failures) : FleetPositionReturns(1, reply)

SpecLive == InitLive /\ [][Next]_vars /\ WF_vars(Settles)

----------------------------------------------------------------------------
(* C19: every request to either endpoint ends with exactly one response:   *)
(* no path sends two, none is sent before the handler is through, and,     *)
(* every awaited call returning or failing, every request is answered.     *)

C19_AtMostOne ==
  \A r \in Slots :
    /\ reqs[r].sent <= 1
    /\ reqs[r].pc = "done" => reqs[r].sent = 1 /\ reqs[r].code # 0 /\ reqs[r].body # NullObj
    /\ reqs[r].pc \notin {"idle", "done"} => reqs[r].sent = 0

C19_ExactlyOneResponse ==
  /\ []C19_AtMostOne
  /\ \A r \in Slots : (reqs[r].pc \notin {"idle", "done"}) ~> (reqs[r].pc = "done")

\* the fleet loop's unconfigured abort: one response, 503
C19_Witness ==
  /\ reqs[1].op = "fleet" /\ reqs[1].pc = "done" /\ reqs[1].code = 503
  /\ reqs[1].sent = 1 /\ Len(reqs[1].cars) = 2

----------------------------------------------------------------------------
(* C20: nothing is retried.  Within a request a vehicle causes at most one *)
(* device fetch and at most one position fetch; a position fetch follows   *)
(* a device fetch that returned a device with a latest-position pointer,   *)
(* and asks for that position; in a fleet request the device fetch of      *)
(* vehicle k+1 goes out only when k entries are recorded, so N vehicles    *)
(* cause at most 2N provider calls.                                        *)

DeviceCalls(q) == {i \in 1..Len(q.calls) : q.calls[i][1] = "getDevice"}

C20_NoRetry ==
  \A r \in Slots :
    LET q == reqs[r]
        waiting == IF q.pc \in {"getDevice", "getPosition"} THEN 1 ELSE 0
    IN /\ \A i \in PositionCalls(q) : i > 1 /\ q.calls[i - 1][1] = "getDevice"
       /\ q.pc = "getPosition" =>
            /\ LastReply(q, "getDevice", 200)
            /\ q.reply.data.positionId \notin {UndefinedNum, NullNum, 0}
            /\ q.reply.call = q.calls[Len(q.calls) - 1]
            /\ PendingCall(q) = <<"getPosition", q.reply.data.positionId>>
       /\ q.op = "car" =>
            /\ Len(q.calls) <= 2 /\ Cardinality(DeviceCalls(q)) <= 1
            /\ q.calls # <<>> => q.calls[1] = <<"getDevice", FindById(q.carId).traccarDeviceId>>
       /\ q.op = "fleet" =>
            /\ Len(q.calls) <= 2 * Len(q.cars)
            /\ Cardinality(DeviceCalls(q)) = Len(q.payload) + waiting
            /\ \A i \in DeviceCalls(q) :
                 LET k == Cardinality({j \in DeviceCalls(q) : j <= i})
                 IN k <= Len(q.cars) /\ q.calls[i][2] = q.cars[k].traccarDeviceId

\* a fleet of two vehicles answered with four provider calls, the second of
\* them after a failure of the first vehicle's position fetch
C20_Witness ==
  /\ reqs[1].op = "fleet" /\ reqs[1].pc = "done" /\ reqs[1].code = 200
  /\ Len(reqs[1].cars) = 2 /\ Len(reqs[1].calls) = 4
  /\ reqs[1].body.cars[1].status = "traccar_error"

----------------------------------------------------------------------------
(* SpecWindow: one caller polls the demo sedan and the fleet, each poll    *)
(* answered before the next, at steps of half the interval and of the      *)
(* interval, from a clock that reads 0 or 1 ms at the start.               *)

InitWindow ==
  \/ InitAt(0, {ConfiguredEnv(0)}, {SubSeq(Catalog, 1, 1)})
  \/ InitAt(1, {ConfiguredEnv(0)}, {SubSeq(Catalog, 1, 1)})

NextWindow ==
  \/ \E d \in {pollIntervalMs \div 2, pollIntervalMs} : reqs[1].pc = "idle" /\ Tick(d, MaxWindowTicks)
  \/ Release(1)
  \/ nRequests < MaxWindowPolls /\ CarTrackingRequest(1, "a1", "c1")
  \/ nRequests < MaxWindowPolls /\ FleetTrackingRequest(1, "a1")
  \/ FindByIdReturns(1, FALSE)
  \/ FindReturns(1, FALSE)
  \/ CarDeviceReturns(1, HttpReply(404, NullObj))
  \/ FleetDeviceReturns(1, HttpReply(404, NullObj))

SpecWindow == InitWindow /\ [][NextWindow]_vars

----------------------------------------------------------------------------
(* C21: a refused request does not extend the window.  It leaves the       *)
(* ledger as it was, so a caller polling one key at a fixed rate, however  *)
(* fast, is let in again at the first poll that comes at least one         *)
(* interval after the last accepted request of the key, whatever was       *)
(* refused in between; only an accepted request overwrites the entry.      *)

LastAccepted(adminId, scope) ==
  CHOOSE t \in AcceptedTimes(adminId, scope) : \A u \in AcceptedTimes(adminId, scope) : u <= t

C21_WindowNotExtendedStep ==
  \A r \in Slots :
    Arrives(r) /\ Limited(reqs'[r]) =>
      LET q == reqs'[r]
          key == q.adminId \o ":" \o ScopeOf(q)
      IN /\ q.code = 429 => lastRequestByAdmin' = lastRequestByAdmin
         /\ ( /\ AcceptedTimes(q.adminId, ScopeOf(q)) # {}
              /\ now - LastAccepted(q.adminId, ScopeOf(q)) >= 5000 )
            => /\ Admitted(q)
               /\ lastRequestByAdmin' = [k \in DOMAIN lastRequestByAdmin \cup {key} |->
                                           IF k = key THEN now ELSE lastRequestByAdmin[k]]

C21_WindowNotExtended == [][C21_WindowNotExtendedStep]_vars

\* three polls of the sedan, half an interval apart: let in, refused, let in
C21_Witness ==
  /\ nRequests = 3 /\ reqs[1].op = "car" /\ Admitted(reqs[1]) /\ reqs[1].at = now
  /\ accepted = {<<"a1", "car-c1", now - 5000>>, <<"a1", "car-c1", now>>}
  /\ now > 5000

----------------------------------------------------------------------------
(* SpecPage: an admin opens the CarTracking page of the demo sedan or the  *)
(* FleetTracking page; the backend's interval is unset (5 s) or 8 s, its   *)
(* answers come after 200 ms or 6 s, and are 200 or a failure.             *)

PageCodes == {200, 502}
PageLatencies == {200, 6000}

InitPage ==
  /\ page \in {InitialPage(CarScope("c1")), InitialPage(FleetScope)}
  /\ env \in {ConfiguredEnv(0), ConfiguredEnv(8)}
  /\ carsDb = SubSeq(Catalog, 1, 1)
  /\ now = 1
  /\ ticks = 0
  /\ lastRequestByAdmin = <<>>
  /\ reqs = [r \in Slots |-> IdleReq]
  /\ nRequests = 0
  /\ accepted = {}

NextPage ==
  \/ \E code \in PageCodes, latency \in PageLatencies : PageMounts(code, latency)
  \/ \E code \in PageCodes, latency \in PageLatencies : PageIntervalFires(code, latency)
  \/ \E x \in page.pending, code \in PageCodes, latency \in PageLatencies :
       PageResponseArrives(x, code, latency)
  \/ PageWaits

SpecPage == InitPage /\ [][NextPage]_vars

----------------------------------------------------------------------------
(* C22: an admin tracking page never polls faster than the interval: two   *)
(* consecutive requests of a page are at least max(pollAfterSeconds, 5)    *)
(* seconds apart, whatever responses it receives, and so none of its       *)
(* requests is answered rate_limited.                                      *)

C22_PagePollingStep ==
  page'.sent = page.sent + 1 =>
    /\ page.lastSent # UndefinedNum =>
         now - page.lastSent >= (IF ConfiguredInterval > 5 THEN ConfiguredInterval ELSE 5) * 1000
    /\ \A x \in page'.pending \ page.pending : x.code # 429

C22_PagePolling == [][C22_PagePollingStep]_vars

----------------------------------------------------------------------------
(* C23: admission is consumed whatever becomes of the request.  When a     *)
(* request that was let in has ended in car_not_found (404), not_mapped,   *)
(* device_not_found, traccar_not_configured or traccar_error, the ledger   *)
(* still holds the entry written at its admission, and a second request    *)
(* for the key less than one interval later is answered rate_limited.      *)

C23_AdmissionConsumed ==
  \A r \in Slots :
    LET q == reqs[r]
        key == q.adminId \o ":" \o ScopeOf(q)
    IN (q.pc = "done" /\ Limited(q) /\ q.code \in {404, 502, 503}) =>
         /\ key \in DOMAIN lastRequestByAdmin
         /\ lastRequestByAdmin[key] >= q.at
         /\ now - q.at < 5000 =>
              LET second == IF q.op = "car"
                            THEN getCarTrackingEntry(lastRequestByAdmin, now, q.adminId, q.carId)
                            ELSE getFleetTrackingEntry(lastRequestByAdmin, now, q.adminId)
              IN /\ second.req.code = 429 /\ second.req.body.status = "rate_limited"
                 /\ second.ledger = lastRequestByAdmin

----------------------------------------------------------------------------
(* C24: a position goes with status ok and with nothing else.  The single- *)
(* vehicle response has a non-null position if and only if its status is   *)
(* ok; a fleet entry, collected or sent, has a position if and only if its *)
(* status is ok, and that position is not null.                            *)

C24_EntryPosition(entry) ==
  /\ "position" \in DOMAIN entry <=> entry.status = "ok"
  /\ "position" \in DOMAIN entry => entry.position # NullObj

C24_PositionIffOk ==
  \A r \in Slots :
    LET q == reqs[r] IN
    /\ (q.op = "car" /\ q.sent > 0) =>
         (q.body.position # NullObj <=> q.body.status = "ok")
    /\ q.op = "fleet" =>
         /\ \A i \in 1..Len(q.payload) : C24_EntryPosition(q.payload[i])
         /\ q.sent > 0 => \A i \in 1..Len(q.body.cars) : C24_EntryPosition(q.body.cars[i])

\* a fleet response with a located vehicle and a vehicle whose position
\* request returned nothing
C24_Witness ==
  /\ reqs[1].op = "fleet" /\ reqs[1].pc = "done" /\ reqs[1].code = 200
  /\ Len(reqs[1].body.cars) >= 2
  /\ reqs[1].body.cars[1].status = "ok"
  /\ reqs[1].body.cars[1].position # NullObj
  /\ reqs[1].body.cars[2].status = "no_fix_yet"
  /\ "position" \notin DOMAIN reqs[1].body.cars[2]
  /\ reqs[1].calls[Len(reqs[1].calls)][1] = "getPosition"

----------------------------------------------------------------------------
(* C25: a fleet response whose top-level status is not ok carries an empty *)
(* vehicle list, whatever had been loaded or collected when it was sent.   *)

C25_EmptyUnlessOk ==
  \A r \in Slots :
    LET q == reqs[r] IN
    (q.op = "fleet" /\ q.sent > 0 /\ q.body.status # "ok") => q.body.cars = <<>>

\* the provider is unconfigured and the registry returned several mapped
\* vehicles: the loop is left at its first vehicle
C25_Witness ==
  /\ reqs[1].op = "fleet" /\ reqs[1].pc = "done" /\ reqs[1].code = 503
  /\ reqs[1].body.status = "traccar_not_configured"
  /\ Len(reqs[1].cars) >= 2
  /\ reqs[1].body.cars = <<>>

----------------------------------------------------------------------------
(* C26: the status of every per-vehicle entry of a fleet response, as      *)
(* collected and as sent, is one of ok, no_fix_yet, device_not_found and   *)
(* traccar_error.                                                          *)

C26_EntryStatuses == {"ok", "no_fix_yet", "device_not_found", "traccar_error"}

C26_EntryStatus ==
  \A r \in Slots :
    LET q == reqs[r] IN
    q.op = "fleet" =>
      /\ \A i \in 1..Len(q.payload) : q.payload[i].status \in C26_EntryStatuses
      /\ q.sent > 0 => \A i \in 1..Len(q.body.cars) : q.body.cars[i].status \in C26_EntryStatuses

\* three vehicles: no fix, missing device, located
C26_Witness ==
  /\ reqs[1].op = "fleet" /\ reqs[1].pc = "done" /\ reqs[1].code = 200
  /\ Len(reqs[1].body.cars) = 3
  /\ reqs[1].body.cars[1].status = "no_fix_yet"
  /\ reqs[1].body.cars[2].status = "device_not_found"
  /\ reqs[1].body.cars[3].status = "ok"

----------------------------------------------------------------------------
(* C27: the ledger only grows and only moves forward.  In every step a key *)
(* that has an entry keeps one, with a timestamp no smaller than before;   *)
(* and the ledger changes in no step but the arrival of a request that the *)
(* limiter lets in, which sets that request's key to the current time and  *)
(* leaves every other entry as it was.                                     *)

C27_LedgerMonotoneStep ==
  /\ \A k \in DOMAIN lastRequestByAdmin :
       /\ k \in DOMAIN lastRequestByAdmin'
       /\ lastRequestByAdmin'[k] >= lastRequestByAdmin[k]
  /\ lastRequestByAdmin' # lastRequestByAdmin =>
       \E r \in Slots :
         LET q == reqs'[r]
             key == q.adminId \o ":" \o ScopeOf(q)
         IN /\ reqs[r].pc = "idle" /\ q.pc # "idle" /\ q.at = now
            /\ q.code \notin {400, 429}
            /\ DOMAIN lastRequestByAdmin' = DOMAIN lastRequestByAdmin \cup {key}
            /\ lastRequestByAdmin'[key] = now
            /\ \A k \in DOMAIN lastRequestByAdmin \ {key} :
                 lastRequestByAdmin'[k] = lastRequestByAdmin[k]

C27_LedgerMonotone == [][C27_LedgerMonotoneStep]_vars

\* the sedan's entry was written, the fleet's entry was added beside it, and
\* one interval later the sedan's entry was overwritten
C27_Witness ==
  /\ DOMAIN lastRequestByAdmin = {"a1:car-c1", "a1:fleet"}
  /\ lastRequestByAdmin["a1:fleet"] = 1
  /\ lastRequestByAdmin["a1:car-c1"] = 1 + pollIntervalMs
  /\ <<"a1", "car-c1", 1>> \in accepted

====
